---- MODULE Spec2Model ----
(***************************************************************************)
(* Model of python_ishare/verification.py:                                 *)
(*   is_valid_eori_number      the EORI identifier format predicate        *)
(*   validate_client_assertion the 12-step client assertion pipeline       *)
(*                                                                         *)
(* Python strings that are inspected character by character (identifiers)  *)
(* are sequences of one-character strings.  A Python value that may be     *)
(* None is a record [none, s]; a dict is a function whose DOMAIN is the    *)
(* set of keys present.                                                    *)
(***************************************************************************)
EXTENDS Integers, Sequences, FiniteSets, TLC

VARIABLES
    pc,            \* position of the validate_client_assertion call
    req,           \* the arguments of the call
    headers,       \* local `headers`
    dec,           \* what decode_jwt / x5c_b64_to_certificate did in this call
    jwt_payload,   \* local `jwt_payload`
    outcome,       \* "none", "accepted", or the exception that left the call
    returned,      \* the value returned by the call
    executed,      \* the pipeline steps that ran, in order
    eori_pc,       \* position of the is_valid_eori_number call
    eori_number,   \* its first argument
    strict_eori,   \* its second argument
    eori_result    \* its return value

vars == <<pc, req, headers, dec, jwt_payload, outcome, returned, executed,
          eori_pc, eori_number, strict_eori, eori_result>>

valVars == <<pc, req, headers, dec, jwt_payload, outcome, returned, executed>>
eoriVars == <<eori_pc, eori_number, strict_eori, eori_result>>

----------------------------------------------------------------------------
(* Python values *)

None == [none |-> TRUE, s |-> <<>>]
Val(x) == [none |-> FALSE, s |-> x]

EmptyDict == [k \in {} |-> None]

\* dict.get(key, default)
Get(d, k, default) == IF k \in DOMAIN d THEN d[k] ELSE default

----------------------------------------------------------------------------
(* is_valid_eori_number *)

Upper == {"A","B","C","D","E","F","G","H","I","J","K","L","M",
          "N","O","P","Q","R","S","T","U","V","W","X","Y","Z"}
Digit == {"0","1","2","3","4","5","6","7","8","9"}

CountryLen == 2
MinEoriDigits == 1
MaxEoriDigits == 15

Lit(c) == [kind |-> "class", chars |-> {c}, min |-> 1, max |-> 1]
Dot == [kind |-> "dot", chars |-> {}, min |-> 1, max |-> 1]
Class(cs, lo, hi) == [kind |-> "class", chars |-> cs, min |-> lo, max |-> hi]

\* r"EU.EORI.[A-Z]{2}[0-9]{1,15}"
pattern ==
    << Lit("E"), Lit("U"), Dot, Lit("E"), Lit("O"), Lit("R"), Lit("I"), Dot,
       Class(Upper, CountryLen, CountryLen),
       Class(Digit, MinEoriDigits, MaxEoriDigits) >>

\* one character against one atom; an unescaped "." is any character but newline
AtomMatches(a, c) ==
    IF a.kind = "dot" THEN c # "\n" ELSE c \in a.chars

RECURSIVE MatchFrom(_, _, _, _)
MatchFrom(p, i, s, j) ==
    IF i > Len(p)
    THEN j = Len(s) + 1
    ELSE \E n \in p[i].min .. p[i].max :
            /\ j + n - 1 <= Len(s)
            /\ \A k \in j .. (j + n - 1) : AtomMatches(p[i], s[k])
            /\ MatchFrom(p, i + 1, s, j + n)

\* re.fullmatch(p, s) is not None
fullmatch(p, s) == MatchFrom(p, 1, s, 1)

\* the emptiness test of line 24 reduced to the None test
is_valid_eori_number_NoneOnly(e, strict) ==
    IF e.none
    THEN FALSE
    ELSE IF ~strict
         THEN TRUE
         ELSE fullmatch(pattern, e.s)

is_valid_eori_number(e, strict) ==
    IF e.none \/ e.s = <<>>
    THEN FALSE
    ELSE IF ~strict
         THEN TRUE
         ELSE fullmatch(pattern, e.s)

----------------------------------------------------------------------------
(* Inputs of the is_valid_eori_number calls *)

ExtraDigits == 1

RECURSIVE Rep(_, _)
Rep(c, n) == IF n = 0 THEN <<>> ELSE <<c>> \o Rep(c, n - 1)

Prefixes ==
    { <<"E","U",".","E","O","R","I",".">>,
      <<"E","U","X","E","O","R","I",".">>,
      <<"E","U",".","E","O","R","I","X">>,
      <<"E","U","\n","E","O","R","I",".">>,
      <<"e","u",".","e","o","r","i",".">>,
      <<"E","U",".","E","O","R",".">>,
      <<>> }

Countries ==
    { <<"N","L">>, <<"n","l">>, <<"N">>, <<"N","L","D">>, <<"N","1">>, <<>> }

DigitRuns ==
    { Rep("1", n) : n \in 0 .. (MaxEoriDigits + ExtraDigits) }
        \cup { <<"1","a">>, <<"0","9">> }

Before == { <<>>, <<"X">> }
After == { <<>>, <<" ">>, <<"\n">> }

EoriStrings ==
    { b \o p \o c \o d \o a :
        b \in Before, p \in Prefixes, c \in Countries, d \in DigitRuns, a \in After }

EoriInputs == {None} \cup { Val(s) : s \in EoriStrings }

InitEoriIdle ==
    /\ eori_pc = "idle"
    /\ eori_number = None
    /\ strict_eori = FALSE
    /\ eori_result = FALSE

InitVal0 ==
    /\ pc = "idle"
    /\ req = [grant_type |-> "", scope |-> "", client_assertion_type |-> "",
              client_assertion |-> [wellformed |-> FALSE, header |-> EmptyDict],
              client_id |-> None, strict_eori |-> FALSE]
    /\ headers = EmptyDict
    /\ dec = "not_called"
    /\ jwt_payload = EmptyDict
    /\ outcome = "none"
    /\ returned = EmptyDict
    /\ executed = <<>>

InitEori ==
    /\ eori_pc = "call"
    /\ eori_number \in EoriInputs
    /\ strict_eori \in BOOLEAN
    /\ eori_result = FALSE
    /\ InitVal0

IsValidEoriNumber ==
    /\ eori_pc = "call"
    /\ eori_result' = is_valid_eori_number(eori_number, strict_eori)
    /\ eori_pc' = "returned"
    /\ UNCHANGED <<eori_number, strict_eori>>
    /\ UNCHANGED valVars

NextEori == IsValidEoriNumber

SpecEori == InitEori /\ [][NextEori]_vars

----------------------------------------------------------------------------
(* validate_client_assertion *)

ASSERTION_TYPE == "urn:ietf:params:oauth:client-assertion-type:jwt-bearer"

Lifetime == 30

\* The exceptions of python_ishare.exceptions raised by validate_client_assertion
IShareExceptions ==
    { "InvalidGrantType", "InvalidScope", "InvalidClientAssertionType",
      "InvalidTokenAlgorithm", "InvalidTokenType", "InvalidCertificate",
      "TokenExpired", "TokenNotValidYet", "InvalidAudience",
      "InvalidClientId", "InvalidTokenIssuerOrSubscriber", "InvalidTokenJTI",
      "TokenExpirationInvalid" }

\* Other exceptions leave the call as they are: "KeyError" of headers[...],
\* "DecodeError" of jwt.get_unverified_header, "CertificateError" for what
\* x5c_b64_to_certificate raises and "InvalidTokenError" for what else
\* decode_jwt raises.

Raise(e) == pc' = "done" /\ outcome' = e
Goto(l) == pc' = l /\ outcome' = outcome
Ran(n) == executed' = Append(executed, n)

\* 59-60
CheckGrantType ==
    /\ pc = "grant_type"
    /\ Ran(1)
    /\ IF req.grant_type # "client_credentials"
       THEN Raise("InvalidGrantType")
       ELSE Goto("scope")
    /\ UNCHANGED <<req, headers, dec, jwt_payload, returned>>
    /\ UNCHANGED eoriVars

\* line 63 recording the error without leaving the function
CheckScope_NoShortCircuit ==
    /\ pc = "scope"
    /\ Ran(2)
    /\ pc' = "client_assertion_type"
    /\ outcome' = IF req.scope # "iSHARE" THEN "InvalidScope" ELSE outcome
    /\ UNCHANGED <<req, headers, dec, jwt_payload, returned>>
    /\ UNCHANGED eoriVars

\* 62-63
CheckScope ==
    /\ pc = "scope"
    /\ Ran(2)
    /\ IF req.scope # "iSHARE"
       THEN Raise("InvalidScope")
       ELSE Goto("client_assertion_type")
    /\ UNCHANGED <<req, headers, dec, jwt_payload, returned>>
    /\ UNCHANGED eoriVars

\* 65-66
CheckClientAssertionType ==
    /\ pc = "client_assertion_type"
    /\ Ran(3)
    /\ IF req.client_assertion_type # ASSERTION_TYPE
       THEN Raise("InvalidClientAssertionType")
       ELSE Goto("get_unverified_header")
    /\ UNCHANGED <<req, headers, dec, jwt_payload, returned>>
    /\ UNCHANGED eoriVars

\* 68: jwt.get_unverified_header raises DecodeError on a string that is not a
\* compact JWS with a JSON object header, and returns the header otherwise.
GetUnverifiedHeader ==
    /\ pc = "get_unverified_header"
    /\ Ran(4)
    /\ IF ~req.client_assertion.wellformed
       THEN Raise("DecodeError") /\ UNCHANGED headers
       ELSE Goto("alg") /\ headers' = req.client_assertion.header
    /\ UNCHANGED <<req, dec, jwt_payload, returned>>
    /\ UNCHANGED eoriVars

\* 70-71: headers["alg"] raises KeyError when the key is not there
CheckAlg ==
    /\ pc = "alg"
    /\ Ran(5)
    /\ IF "alg" \notin DOMAIN headers
       THEN Raise("KeyError")
       ELSE IF headers["alg"] # "RS256"
            THEN Raise("InvalidTokenAlgorithm")
            ELSE Goto("typ")
    /\ UNCHANGED <<req, headers, dec, jwt_payload, returned>>
    /\ UNCHANGED eoriVars

\* 73-74
CheckTyp ==
    /\ pc = "typ"
    /\ Ran(6)
    /\ IF "typ" \notin DOMAIN headers
       THEN Raise("KeyError")
       ELSE IF headers["typ"] # "JWT"
            THEN Raise("InvalidTokenType")
            ELSE Goto("x5c")
    /\ UNCHANGED <<req, headers, dec, jwt_payload, returned>>
    /\ UNCHANGED eoriVars

\* 76: headers["x5c"] is None or len(headers["x5c"]) < 1
X5cInvalid_OffByOne(x) == x.none \/ Len(x.s) < 0

X5cInvalid(x) == x.none \/ Len(x.s) < 1

\* 76-77
CheckX5c ==
    /\ pc = "x5c"
    /\ Ran(7)
    /\ IF "x5c" \notin DOMAIN headers
       THEN Raise("KeyError")
       ELSE IF X5cInvalid(headers["x5c"])
            THEN Raise("InvalidCertificate")
            ELSE Goto("decode_jwt")
    /\ UNCHANGED <<req, headers, dec, jwt_payload, returned>>
    /\ UNCHANGED eoriVars

\* What the call of line 80-84 can do: x5c_b64_to_certificate fails on the
\* entries ("cert_error"), decode_jwt raises ExpiredSignatureError ("expired"),
\* ImmatureSignatureError ("immature"), InvalidAudienceError ("audience") or
\* another exception ("other"), or decode_jwt returns a payload ("ok").
DecoderFailures == { "cert_error", "expired", "immature", "audience", "other" }

MaxSkew == 1

ClientIds ==
    { None,
      Val(<<>>),
      Val(<<"E","U",".","E","O","R","I",".","N","L","1">>),
      Val(<<"E","U",".","E","O","R","I",".","D","E","2">>),
      Val(<<"a","b","c">>) }

JtiValues == { None, Val(<<>>), Val(<<"a","b","c">>) }
IatValues == { 0 - Lifetime, 0, 1000 }
ExpValues(iat) == { iat + Lifetime + d : d \in (0 - MaxSkew) .. MaxSkew }

\* a key with one of the values, or the key left out
Opt(k, S) == { EmptyDict } \cup { k :> v : v \in S }

Payloads ==
    UNION { { a @@ b @@ c @@ d @@ e : e \in Opt("exp", ExpValues(Get(d, "iat", 0))) } :
            a \in Opt("sub", ClientIds), b \in Opt("iss", ClientIds),
            c \in Opt("jti", JtiValues), d \in Opt("iat", IatValues) }

\* the last except clause catching every exception
ExceptClause_CatchAll(f) ==
    CASE f = "expired" -> "TokenExpired"
      [] f = "immature" -> "TokenNotValidYet"
      [] OTHER -> "InvalidAudience"

\* 85-90: the exception that leaves the try statement
ExceptClause(f) ==
    CASE f = "expired" -> "TokenExpired"
      [] f = "immature" -> "TokenNotValidYet"
      [] f = "audience" -> "InvalidAudience"
      [] f = "cert_error" -> "CertificateError"
      [] OTHER -> "InvalidTokenError"

\* 79-90
DecodeJwt ==
    /\ pc = "decode_jwt"
    /\ Ran(8)
    /\ \/ \E f \in DecoderFailures :
            /\ dec' = f
            /\ UNCHANGED jwt_payload
            /\ Raise(ExceptClause(f))
       \/ \E p \in Payloads :
            /\ dec' = "ok"
            /\ jwt_payload' = p
            /\ Goto("client_id")
    /\ UNCHANGED <<req, headers, returned>>
    /\ UNCHANGED eoriVars

\* 92-93
CheckClientId ==
    /\ pc = "client_id"
    /\ Ran(9)
    /\ IF ~is_valid_eori_number(req.client_id, req.strict_eori)
       THEN Raise("InvalidClientId")
       ELSE Goto("sub_iss")
    /\ UNCHANGED <<req, headers, dec, jwt_payload, returned>>
    /\ UNCHANGED eoriVars

\* `and` in the place of `or`
SubIssMismatch_And(client_id, payload) ==
    /\ client_id # Get(payload, "sub", None)
    /\ client_id # Get(payload, "iss", None)

\* 95
SubIssMismatch(client_id, payload) ==
    \/ client_id # Get(payload, "sub", None)
    \/ client_id # Get(payload, "iss", None)

\* 95-96
CheckSubIss ==
    /\ pc = "sub_iss"
    /\ Ran(10)
    /\ IF SubIssMismatch(req.client_id, jwt_payload)
       THEN Raise("InvalidTokenIssuerOrSubscriber")
       ELSE Goto("jti")
    /\ UNCHANGED <<req, headers, dec, jwt_payload, returned>>
    /\ UNCHANGED eoriVars

\* Python truth value of a str-or-None
Truthy(v) == ~v.none /\ v.s # <<>>

\* 98-99
CheckJti ==
    /\ pc = "jti"
    /\ Ran(11)
    /\ IF ~Truthy(Get(jwt_payload, "jti", None))
       THEN Raise("InvalidTokenJTI")
       ELSE Goto("exp_iat")
    /\ UNCHANGED <<req, headers, dec, jwt_payload, returned>>
    /\ UNCHANGED eoriVars

\* 101-102
expires == Get(jwt_payload, "exp", 0)
issued == Get(jwt_payload, "iat", 0)

\* an upper bound in the place of the equality
LifetimeInvalid_UpperBound(e, i) == e - i > Lifetime

\* 104
LifetimeInvalid(e, i) == e - i # Lifetime

\* 104-107
CheckLifetime ==
    /\ pc = "exp_iat"
    /\ Ran(12)
    /\ IF LifetimeInvalid(expires, issued)
       THEN Raise("TokenExpirationInvalid") /\ UNCHANGED returned
       ELSE /\ pc' = "done"
            /\ outcome' = "accepted"
            /\ returned' = jwt_payload
    /\ UNCHANGED <<req, headers, dec, jwt_payload>>
    /\ UNCHANGED eoriVars

----------------------------------------------------------------------------
(* The calls of validate_client_assertion *)

AlgValues == { "RS256", "HS256", "none" }
TypValues == { "JWT", "JWS" }
X5cValues == { None, Val(<<>>), Val(<<"MIIC">>), Val(<<"MIIC", "MIID">>) }

Headers ==
    { a @@ t @@ x :
        a \in Opt("alg", AlgValues), t \in Opt("typ", TypValues), x \in Opt("x5c", X5cValues) }

Assertions ==
    { [wellformed |-> FALSE, header |-> EmptyDict] }
        \cup { [wellformed |-> TRUE, header |-> h] : h \in Headers }

Requests ==
    [ grant_type : { "client_credentials", "authorization_code" },
      scope : { "iSHARE", "ishare" },
      client_assertion_type : { ASSERTION_TYPE, "jwt-bearer" },
      client_assertion : Assertions,
      client_id : ClientIds,
      strict_eori : BOOLEAN ]

Init ==
    /\ pc = "grant_type"
    /\ req \in Requests
    /\ headers = EmptyDict
    /\ dec = "not_called"
    /\ jwt_payload = EmptyDict
    /\ outcome = "none"
    /\ returned = EmptyDict
    /\ executed = <<>>
    /\ InitEoriIdle

Next ==
    \/ CheckGrantType
    \/ CheckScope
    \/ CheckClientAssertionType
    \/ GetUnverifiedHeader
    \/ CheckAlg
    \/ CheckTyp
    \/ CheckX5c
    \/ DecodeJwt
    \/ CheckClientId
    \/ CheckSubIss
    \/ CheckJti
    \/ CheckLifetime

Spec == Init /\ [][Next]_vars

----------------------------------------------------------------------------
(* Properties *)

Done == pc = "done"
Accepted == outcome = "accepted"
StepsRun == Len(executed)
RequestHeader == req.client_assertion.header
HeaderIs(k, v) == k \in DOMAIN RequestHeader /\ RequestHeader[k] = v
ClaimIs(d, k, v) == k \in DOMAIN d /\ d[k] = v

ParametersPass ==
    /\ req.grant_type = "client_credentials"
    /\ req.scope = "iSHARE"
    /\ req.client_assertion_type = ASSERTION_TYPE

\* steps 1 to 6 pass for the request
HeaderPasses ==
    /\ ParametersPass
    /\ req.client_assertion.wellformed
    /\ HeaderIs("alg", "RS256")
    /\ HeaderIs("typ", "JWT")

X5cPresent ==
    /\ "x5c" \in DOMAIN RequestHeader
    /\ ~RequestHeader["x5c"].none
    /\ Len(RequestHeader["x5c"].s) >= 1

\* C1: a call is accepted only if each of the 12 checks passed for its
\* request and none was skipped: the three fixed parameters, alg = RS256,
\* typ = JWT, a non-empty x5c, a successful decoder, a client_id that passes
\* is_valid_eori_number with the request's strict_eori, sub = iss = client_id,
\* a non-empty jti, and exp - iat = 30 as the call reads them.
AcceptedOnlyIfAllChecksPassed ==
    Accepted =>
        /\ HeaderPasses
        /\ X5cPresent
        /\ dec = "ok"
        /\ is_valid_eori_number(req.client_id, req.strict_eori)
        /\ ClaimIs(returned, "sub", req.client_id)
        /\ ClaimIs(returned, "iss", req.client_id)
        /\ "jti" \in DOMAIN returned
        /\ ~returned["jti"].none
        /\ Len(returned["jti"].s) > 0
        /\ Get(returned, "exp", 0) - Get(returned, "iat", 0) = Lifetime
        /\ executed = <<1, 2, 3, 4, 5, 6, 7, 8, 9, 10, 11, 12>>

AcceptedStrictWitness ==
    /\ Accepted
    /\ req.strict_eori
    /\ Len(RequestHeader["x5c"].s) = 1

\* whether step k rejects, read from the request and (from step 8 on) from
\* what the decoder did
StepFails(k) ==
    CASE k = 1 -> req.grant_type # "client_credentials"
      [] k = 2 -> req.scope # "iSHARE"
      [] k = 3 -> req.client_assertion_type # ASSERTION_TYPE
      [] k = 4 -> ~req.client_assertion.wellformed
      [] k = 5 -> ~HeaderIs("alg", "RS256")
      [] k = 6 -> ~HeaderIs("typ", "JWT")
      [] k = 7 -> ~X5cPresent
      [] k = 8 -> dec # "ok"
      [] k = 9 -> ~is_valid_eori_number(req.client_id, req.strict_eori)
      [] k = 10 -> ~(ClaimIs(jwt_payload, "sub", req.client_id)
                        /\ ClaimIs(jwt_payload, "iss", req.client_id))
      [] k = 11 -> ~("jti" \in DOMAIN jwt_payload /\ Truthy(jwt_payload["jti"]))
      [] OTHER -> expires - issued # Lifetime

\* the errors step k can end the call with
ErrorsOf(k) ==
    CASE k = 1 -> { "InvalidGrantType" }
      [] k = 2 -> { "InvalidScope" }
      [] k = 3 -> { "InvalidClientAssertionType" }
      [] k = 4 -> { "DecodeError" }
      [] k = 5 -> { "InvalidTokenAlgorithm", "KeyError" }
      [] k = 6 -> { "InvalidTokenType", "KeyError" }
      [] k = 7 -> { "InvalidCertificate", "KeyError" }
      [] k = 8 -> { "TokenExpired", "TokenNotValidYet", "InvalidAudience",
                    "CertificateError", "InvalidTokenError" }
      [] k = 9 -> { "InvalidClientId" }
      [] k = 10 -> { "InvalidTokenIssuerOrSubscriber" }
      [] k = 11 -> { "InvalidTokenJTI" }
      [] OTHER -> { "TokenExpirationInvalid" }

\* C2: the steps run in the order 1..12 and the first failing step ends the
\* call: the steps that ran are 1..k, every step before k passed, the error
\* is one of step k, and nothing is reported before the call is over.  A
\* grant_type other than client_credentials gives InvalidGrantType for any
\* client_assertion, with neither the header read nor a decoder called.
ChecksRunInOrder ==
    /\ executed = [i \in 1 .. StepsRun |-> i]
    /\ outcome # "none" => Done
    /\ \A k \in 1 .. (StepsRun - 1) : ~StepFails(k)
    /\ (Done /\ ~Accepted) => (StepFails(StepsRun) /\ outcome \in ErrorsOf(StepsRun))
    /\ (Done /\ req.grant_type # "client_credentials") =>
            /\ outcome = "InvalidGrantType"
            /\ executed = <<1>>
            /\ headers = EmptyDict
            /\ dec = "not_called"

GrantTypeFirstWitness ==
    /\ Done
    /\ outcome = "InvalidGrantType"
    /\ req.scope # "iSHARE"
    /\ ~req.client_assertion.wellformed
    /\ StepFails(9)

\* C3: every call ends either with the claims returned or with one of the
\* 13 iSHARE exceptions.
EveryCallEndsInTaxonomy ==
    Done => \/ Accepted /\ returned = jwt_payload
            \/ outcome \in IShareExceptions

\* the strict format with literal dots
StrictFormat(s) ==
    /\ Len(s) >= 8 + CountryLen + MinEoriDigits
    /\ Len(s) <= 8 + CountryLen + MaxEoriDigits
    /\ SubSeq(s, 1, 8) = <<"E","U",".","E","O","R","I",".">>
    /\ \A k \in 9 .. (8 + CountryLen) : s[k] \in Upper
    /\ \A k \in (9 + CountryLen) .. Len(s) : s[k] \in Digit

\* C4: with strict_eori true, is_valid_eori_number returns true exactly for
\* 'EU.EORI.' with literal dots, two uppercase letters and 1 to 15 digits.
StrictEoriExactFormat ==
    (eori_pc = "returned" /\ strict_eori) =>
        (eori_result <=> (~eori_number.none /\ StrictFormat(eori_number.s)))

\* C5: is_valid_eori_number returns false for an empty or absent identifier
\* whatever strict_eori is, and true for every non-empty identifier when
\* strict_eori is false.
EmptyRejectedLaxAccepted ==
    eori_pc = "returned" =>
        /\ (eori_number.none \/ Len(eori_number.s) = 0) => ~eori_result
        /\ (~eori_number.none /\ Len(eori_number.s) > 0 /\ ~strict_eori) => eori_result

LaxAcceptsWitness ==
    /\ eori_pc = "returned"
    /\ ~strict_eori
    /\ ~eori_number.none
    /\ Len(eori_number.s) > 0
    /\ ~StrictFormat(eori_number.s)
    /\ eori_result

\* C6: when steps 1 to 6 pass and x5c is missing, null or empty, the call
\* fails with InvalidCertificate and no decoder is called.
MissingX5cIsInvalidCertificate ==
    (Done /\ HeaderPasses /\ ~X5cPresent) =>
        (outcome = "InvalidCertificate" /\ dec = "not_called")

\* C7: a call that passes steps 1 to 11 succeeds if and only if exp - iat,
\* as the call reads them, is exactly 30, and fails with
\* TokenExpirationInvalid otherwise.
LifetimeExactly30 ==
    (Done /\ StepsRun = 12) =>
        /\ Accepted <=> (expires - issued = Lifetime)
        /\ ~Accepted => outcome = "TokenExpirationInvalid"

ShortLifetimeWitness ==
    /\ Done
    /\ StepsRun = 12
    /\ {"exp", "iat"} \subseteq DOMAIN jwt_payload
    /\ jwt_payload["exp"] - jwt_payload["iat"] = Lifetime - 1
    /\ outcome = "TokenExpirationInvalid"

\* C8: a call that passes steps 1 to 9 and whose sub or iss differs from
\* client_id, or is absent, fails with InvalidTokenIssuerOrSubscriber; the
\* claims of an accepted call have sub = iss = client_id.
SubIssBoundToClientId ==
    /\ (Done /\ StepsRun >= 10 /\ StepFails(10)) =>
            outcome = "InvalidTokenIssuerOrSubscriber"
    /\ Accepted =>
            /\ ClaimIs(returned, "sub", req.client_id)
            /\ ClaimIs(returned, "iss", req.client_id)

OtherClientWitness ==
    /\ Done
    /\ outcome = "InvalidTokenIssuerOrSubscriber"
    /\ {"sub", "iss"} \subseteq DOMAIN jwt_payload
    /\ jwt_payload["sub"] = jwt_payload["iss"]
    /\ jwt_payload["sub"] # req.client_id
    /\ is_valid_eori_number(jwt_payload["sub"], TRUE)
    /\ is_valid_eori_number(req.client_id, TRUE)

\* C9: at step 8, expired gives TokenExpired, not-yet-valid gives
\* TokenNotValidYet, wrong audience gives InvalidAudience, and only they do;
\* any other failure gives neither an iSHARE exception nor acceptance; in all
\* these cases steps 9 to 12 do not run.
DecoderFailuresMapped ==
    /\ (Done /\ dec \in DecoderFailures) =>
            /\ StepsRun = 8
            /\ dec = "expired" => outcome = "TokenExpired"
            /\ dec = "immature" => outcome = "TokenNotValidYet"
            /\ dec = "audience" => outcome = "InvalidAudience"
            /\ dec \in {"other", "cert_error"} =>
                    outcome \notin (IShareExceptions \cup {"accepted"})
    /\ outcome = "TokenExpired" => dec = "expired"
    /\ outcome = "TokenNotValidYet" => dec = "immature"
    /\ outcome = "InvalidAudience" => dec = "audience"

OtherFailureWitness ==
    /\ Done
    /\ dec = "other"
    /\ outcome = "InvalidTokenError"
    /\ StepsRun = 8

\* C10: the claims returned by a call contain sub, iss, exp, iat and jti.
ReturnedHasRequiredKeys ==
    Accepted => {"sub", "iss", "exp", "iat", "jti"} \subseteq DOMAIN returned

====
